---- MODULE Spec2Model ----
(***************************************************************************)
(* Model of src/app.js of rtcstats-server: the per-connection session log  *)
(* (wss 'connection' handler and its closures) and the ProcessQueue that   *)
(* forks one extract.js worker per finished session.                       *)
(*                                                                         *)
(* Scheduling.  Node.js runs one callback at a time.  A callback handed to *)
(* process.nextTick is put on the tick queue, and the tick queue is        *)
(* drained, in FIFO order, after the running callback returns and before   *)
(* the event loop delivers the next event.  tickq is that queue; every     *)
(* action that models an event delivered by the event loop (a socket, a    *)
(* stream, a child process or a file system completion) is guarded by      *)
(* tickq = << >>; Process and Location run the head of the queue.           *)
(***************************************************************************)
EXTENDS Integers, Sequences, FiniteSets, TLC

\* ------------------------------------------------------------------ bounds
NClients == 3        \* connections accepted over the run (session identifiers)
MaxCap == 2          \* largest os.cpus().length considered
MaxMsgs == 3         \* inbound messages over the run
MaxFail == 1         \* spawn failures over the run
MaxLate == 1         \* 'exit' events delivered after an 'error' over the run
MaxResults == 1      \* result messages sent by workers over the run

Clients == 1..NClients
NoClient == 0        \* what q.shift() yields on an empty queue (undefined)

\* --------------------------------------------------------------- variables
VARIABLES
    maxProc,         \* ProcessQueue.maxProc
    q,               \* ProcessQueue.q
    numProc,         \* ProcessQueue.numProc
    tickq,           \* callbacks scheduled with process.nextTick, FIFO
    conn,            \* per connection: "idle", "open", "ended", "finished"
    numberOfEvents,  \* closure variable of the connection handler
    tempStream,      \* closure variable: TRUE while it holds the stream
    log,             \* records written to temp/<clientid>, in order
    file,            \* TRUE while temp/<clientid> exists
    recv,            \* history: shapes of the messages received, in order
    workers,         \* one record per child_process.fork, in fork order
    fsops,           \* file system requests issued and not yet completed
    stored,          \* per session: number of Store.put calls
    unlinked,        \* history: per session, number of unlinks that removed the file
    enq,             \* history: identifiers passed to q.enqueue, in order
    processed,       \* prom counter rtcstats_files_processed
    errored,         \* prom counter rtcstats_files_errored
    nFail,           \* history: spawn failures so far
    nLate,           \* history: 'exit' events delivered after an 'error'
    connected        \* prom gauge rtcstats_websocket_connections

vars == <<maxProc, q, numProc, tickq, conn, numberOfEvents, tempStream, log,
          file, recv, workers, fsops, stored, unlinked, enq, processed,
          errored, nFail, nLate, connected>>

connVars == <<conn, numberOfEvents, tempStream, log, recv, connected>>
poolVars == <<workers, processed, errored, nFail, nLate>>
fsVars == <<file, fsops, stored, unlinked>>

\* ----------------------------------------------------------------- records
Rec(type, n, red) == [type |-> type, n |-> n, red |-> red]
MetaRec == Rec("meta", 0, FALSE)
LocationRec == Rec("location", 0, FALSE)
CloseRec == Rec("close", 0, FALSE)

\* What an inbound message is, as far as the 'message' handler tells apart:
\* text JSON.parse rejects, JSON null, a JSON number, and arrays whose
\* first element is an allow-listed tag or another tag.
Shapes == {"unparseable", "null", "number", "getUserMedia", "custom"}

\* the allow-list without its last case label
AllowListShort == {"getUserMedia", "getUserMediaOnSuccess", "getUserMediaOnFailure",
                   "navigator.mediaDevices.getUserMedia",
                   "navigator.mediaDevices.getUserMediaOnSuccess"}

AllowList == {"getUserMedia", "getUserMediaOnSuccess", "getUserMediaOnFailure",
              "navigator.mediaDevices.getUserMedia",
              "navigator.mediaDevices.getUserMediaOnSuccess",
              "navigator.mediaDevices.getUserMediaOnFailure"}

\* JSON.parse(msg) returns (TRUE) or throws (FALSE)
Parses(s) == s # "unparseable"

\* data[0] that never throws
TagNeverThrows(s) == FALSE

\* data[0] throws a TypeError on null; on a number it is undefined
TagThrows(s) == s = "null"

\* the tags of well-formed events offered to the 'message' handler: the six
\* case labels of its switch and two tags that fall to its default branch
Tags == {"getUserMedia", "getUserMediaOnSuccess", "getUserMediaOnFailure",
         "navigator.mediaDevices.getUserMedia",
         "navigator.mediaDevices.getUserMediaOnSuccess",
         "navigator.mediaDevices.getUserMediaOnFailure",
         "custom", "getStats"}

\* obfuscate(data): redaction in place
obfuscate(r) == [r EXCEPT !.red = TRUE]

\* the record the 'message' handler writes for the n-th message of shape s
EventRec(s, n) ==
    IF s \in AllowList THEN Rec(s, n, FALSE) ELSE obfuscate(Rec(s, n, FALSE))

\* tick queue entries
ProcessTick == [t |-> "process", c |-> NoClient]
LocationTick(c) == [t |-> "location", c |-> c]

\* file system requests; w is the worker whose exit handler issued the
\* request, 0 for the 'finish' handler
ReadReq(c, w) == [op |-> "read", c |-> c, w |-> w]
UnlinkReq(c, w) == [op |-> "unlink", c |-> c, w |-> w]

RECURSIVE SumLen(_, _)
SumLen(f, S) ==
    IF S = {} THEN 0
    ELSE LET x == CHOOSE y \in S : TRUE IN Len(f[x]) + SumLen(f, S \ {x})

\* inbound messages received so far, over all connections
NumReceived == SumLen(recv, Clients)

RECURSIVE SumSent(_)
SumSent(n) == IF n = 0 THEN 0 ELSE workers[n].sent + SumSent(n - 1)

\* result messages sent so far, over all workers
NumSent == SumSent(Len(workers))

\* -------------------------------------------------------------------- Init
Init ==
    /\ maxProc \in 1..MaxCap
    /\ q = << >>
    /\ numProc = 0
    /\ tickq = << >>
    /\ conn = [c \in Clients |-> "idle"]
    /\ numberOfEvents = [c \in Clients |-> 0]
    /\ tempStream = [c \in Clients |-> FALSE]
    /\ log = [c \in Clients |-> << >>]
    /\ file = [c \in Clients |-> FALSE]
    /\ recv = [c \in Clients |-> << >>]
    /\ workers = << >>
    /\ fsops = {}
    /\ stored = [c \in Clients |-> 0]
    /\ unlinked = [c \in Clients |-> 0]
    /\ enq = << >>
    /\ processed = 0
    /\ errored = 0
    /\ nFail = 0
    /\ nLate = 0
    /\ connected = 0

\* ------------------------------------------------------------ ProcessQueue
\* Schedule without the comparison against maxProc
ScheduleUnchecked(tq, n) == Append(tq, ProcessTick)

\* the tick queue after ProcessQueue.enqueue / the exit handler looked at
\* the counter n
Schedule(tq, n) == IF n < maxProc THEN Append(tq, ProcessTick) ELSE tq

\* push that inserts at the head (unshift)
pushFront(qq, c) == <<c>> \o qq

\* this.q.push(clientid)
push(qq, c) == Append(qq, c)

\* shift that removes the last element (pop)
shiftLast(qq) ==
    IF qq = << >> THEN [head |-> NoClient, rest |-> qq]
    ELSE [head |-> qq[Len(qq)], rest |-> SubSeq(qq, 1, Len(qq) - 1)]

\* shift that reads the head and leaves it in the array (q[0])
shiftPeek(qq) ==
    IF qq = << >> THEN [head |-> NoClient, rest |-> qq]
    ELSE [head |-> Head(qq), rest |-> qq]

\* this.q.shift(): the element removed and the array left
shift(qq) ==
    IF qq = << >> THEN [head |-> NoClient, rest |-> qq]
    ELSE [head |-> Head(qq), rest |-> Tail(qq)]

\* ProcessQueue.enqueue(clientid)
enqueue(c) ==
    /\ q' = push(q, c)
    /\ tickq' = Schedule(tickq, numProc)
    /\ enq' = Append(enq, c)
    /\ UNCHANGED numProc

NewWorker(c) == [cid |-> c, st |-> "live", sent |-> 0, put |-> 0]

\* process() with numProc++ moved in front of the test of clientid
ProcessCountsFirst ==
    /\ tickq # << >>
    /\ Head(tickq) = ProcessTick
    /\ tickq' = Tail(tickq)
    /\ numProc' = numProc + 1
    /\ q' = shift(q).rest
    /\ LET clientid == shift(q).head IN
       IF clientid = NoClient
       THEN UNCHANGED workers
       ELSE workers' = Append(workers, NewWorker(clientid))
    /\ UNCHANGED <<maxProc, connVars, fsVars, enq, processed, errored, nFail, nLate>>

\* ProcessQueue.process(), run from the tick queue
Process ==
    /\ tickq # << >>
    /\ Head(tickq) = ProcessTick
    /\ tickq' = Tail(tickq)
    /\ LET clientid == shift(q).head IN
       IF clientid = NoClient
       THEN /\ q' = shift(q).rest
            /\ UNCHANGED <<numProc, workers>>
       ELSE /\ q' = shift(q).rest
            /\ workers' = Append(workers, NewWorker(clientid))
            /\ numProc' = numProc + 1
    /\ UNCHANGED <<maxProc, connVars, fsVars, enq, processed, errored, nFail, nLate>>

Clamp(n) == IF n < 0 THEN 0 ELSE n

\* the exit handler with the upload skipped for a non-zero status
OnExitUploadOnSuccess(w, code) ==
    /\ tickq = << >>
    /\ w \in 1..Len(workers)
    /\ workers[w].st \in {"live", "failed"}
    /\ nLate' = IF workers[w].st = "failed" THEN nLate + 1 ELSE nLate
    /\ LET n == Clamp(numProc - 1) IN
       /\ numProc' = n
       /\ tickq' = Schedule(tickq, n)
    /\ processed' = IF code = 0 THEN processed + 1 ELSE processed
    /\ errored' = IF code = 0 THEN errored ELSE errored + 1
    /\ workers' = [workers EXCEPT ![w].st = "exited"]
    /\ fsops' = IF code = 0 THEN fsops \cup {ReadReq(workers[w].cid, w)} ELSE fsops
    /\ UNCHANGED <<maxProc, q, connVars, file, stored, unlinked, enq, nFail>>

\* the exit handler without the nextTick of process
OnExitNoSchedule(w, code) ==
    /\ tickq = << >>
    /\ w \in 1..Len(workers)
    /\ workers[w].st \in {"live", "failed"}
    /\ nLate' = IF workers[w].st = "failed" THEN nLate + 1 ELSE nLate
    /\ numProc' = Clamp(numProc - 1)
    /\ processed' = IF code = 0 THEN processed + 1 ELSE processed
    /\ errored' = IF code = 0 THEN errored ELSE errored + 1
    /\ workers' = [workers EXCEPT ![w].st = "exited"]
    /\ fsops' = fsops \cup {ReadReq(workers[w].cid, w)}
    /\ UNCHANGED <<maxProc, q, tickq, connVars, file, stored, unlinked, enq, nFail>>

\* p.on('exit'): code 0 or non-zero.  Node may or may not emit 'exit' after
\* 'error', so the handler can also run for a worker that failed to spawn.
OnExit(w, code) ==
    /\ tickq = << >>
    /\ w \in 1..Len(workers)
    /\ workers[w].st \in {"live", "failed"}
    /\ nLate' = IF workers[w].st = "failed" THEN nLate + 1 ELSE nLate
    /\ LET n == Clamp(numProc - 1) IN
       /\ numProc' = n
       /\ tickq' = Schedule(tickq, n)
    /\ processed' = IF code = 0 THEN processed + 1 ELSE processed
    /\ errored' = IF code = 0 THEN errored ELSE errored + 1
    /\ workers' = [workers EXCEPT ![w].st = "exited"]
    /\ fsops' = fsops \cup {ReadReq(workers[w].cid, w)}
    /\ UNCHANGED <<maxProc, q, connVars, file, stored, unlinked, enq, nFail>>

\* p.on('message'): Database.put for a message the worker has sent
OnMessage(w) ==
    /\ tickq = << >>
    /\ w \in 1..Len(workers)
    /\ workers[w].put < workers[w].sent
    /\ workers' = [workers EXCEPT ![w].put = @ + 1]
    /\ UNCHANGED <<maxProc, q, numProc, tickq, connVars, fsVars, enq,
                   processed, errored, nFail, nLate>>

\* p.on('error'): the child could not be spawned
OnError(w) ==
    /\ tickq = << >>
    /\ w \in 1..Len(workers)
    /\ workers[w].st = "live"
    /\ workers[w].sent = 0
    /\ nFail' = nFail + 1
    /\ numProc' = numProc - 1
    /\ q' = push(q, workers[w].cid)
    /\ workers' = [workers EXCEPT ![w].st = "failed"]
    /\ UNCHANGED <<maxProc, tickq, connVars, fsVars, enq, processed, errored,
                   nLate>>

\* the extract.js child sends a result message over the IPC channel
WorkerSend(w) ==
    /\ w \in 1..Len(workers)
    /\ workers[w].st = "live"
    /\ workers' = [workers EXCEPT ![w].sent = @ + 1]
    /\ UNCHANGED <<maxProc, q, numProc, tickq, connVars, fsVars, enq,
                   processed, errored, nFail, nLate>>

\* the callback with the unlink moved in front of the test of err
ReadDoneAlwaysUnlink(r, ok) ==
    /\ tickq = << >>
    /\ r \in fsops
    /\ r.op = "read"
    /\ ok => file[r.c]
    /\ fsops' = (fsops \ {r}) \cup {UnlinkReq(r.c, r.w)}
    /\ stored' = IF ok THEN [stored EXCEPT ![r.c] = @ + 1] ELSE stored
    /\ UNCHANGED <<maxProc, q, numProc, tickq, connVars, poolVars, file,
                   unlinked, enq>>

\* callback of fs.readFile in the exit handler
ReadDone(r, ok) ==
    /\ tickq = << >>
    /\ r \in fsops
    /\ r.op = "read"
    /\ ok => file[r.c]
    /\ IF ok
       THEN /\ fsops' = (fsops \ {r}) \cup {UnlinkReq(r.c, r.w)}
            /\ stored' = [stored EXCEPT ![r.c] = @ + 1]
       ELSE /\ fsops' = fsops \ {r}
            /\ UNCHANGED stored
    /\ UNCHANGED <<maxProc, q, numProc, tickq, connVars, poolVars, file,
                   unlinked, enq>>

\* completion of an fs.unlink (its callback does nothing)
UnlinkDone(r) ==
    /\ tickq = << >>
    /\ r \in fsops
    /\ r.op = "unlink"
    /\ fsops' = fsops \ {r}
    /\ file' = [file EXCEPT ![r.c] = FALSE]
    /\ unlinked' = [unlinked EXCEPT ![r.c] = IF file[r.c] THEN @ + 1 ELSE @]
    /\ UNCHANGED <<maxProc, q, numProc, tickq, connVars, poolVars, stored, enq>>

\* -------------------------------------------------------------- connection
\* the connection handler with the location record written at once, before
\* the metadata record
ConnectionLocationFirst(c, address) ==
    /\ tickq = << >>
    /\ conn[c] = "idle"
    /\ \A d \in Clients : d < c => conn[d] # "idle"
    /\ connected' = connected + 1
    /\ numberOfEvents' = [numberOfEvents EXCEPT ![c] = 0]
    /\ tempStream' = [tempStream EXCEPT ![c] = TRUE]
    /\ file' = [file EXCEPT ![c] = TRUE]
    /\ log' = [log EXCEPT ![c] = IF address THEN <<LocationRec, MetaRec>>
                                 ELSE <<MetaRec>>]
    /\ conn' = [conn EXCEPT ![c] = "open"]
    /\ UNCHANGED <<maxProc, q, numProc, tickq, recv, poolVars, fsops, stored,
                   unlinked, enq>>

\* wss.on('connection'); address is what getRequestAddress returned
Connection(c, address) ==
    /\ tickq = << >>
    /\ conn[c] = "idle"
    /\ \A d \in Clients : d < c => conn[d] # "idle"
    /\ connected' = connected + 1
    /\ numberOfEvents' = [numberOfEvents EXCEPT ![c] = 0]
    /\ tempStream' = [tempStream EXCEPT ![c] = TRUE]
    /\ file' = [file EXCEPT ![c] = TRUE]
    /\ log' = [log EXCEPT ![c] = <<MetaRec>>]
    /\ tickq' = IF address THEN Append(tickq, LocationTick(c)) ELSE tickq
    /\ conn' = [conn EXCEPT ![c] = "open"]
    /\ UNCHANGED <<maxProc, q, numProc, recv, poolVars, fsops, stored,
                   unlinked, enq>>

\* the callback without its test of tempStream
LocationUnguarded ==
    /\ tickq # << >>
    /\ Head(tickq).t = "location"
    /\ tickq' = Tail(tickq)
    /\ log' = [log EXCEPT ![Head(tickq).c] = Append(@, LocationRec)]
    /\ UNCHANGED <<maxProc, q, numProc, conn, numberOfEvents, tempStream, recv,
                   connected, poolVars, fsVars, enq>>

\* the callback handed to process.nextTick in the connection handler
Location ==
    /\ tickq # << >>
    /\ Head(tickq).t = "location"
    /\ tickq' = Tail(tickq)
    /\ LET c == Head(tickq).c IN
       log' = IF tempStream[c] THEN [log EXCEPT ![c] = Append(@, LocationRec)]
              ELSE log
    /\ UNCHANGED <<maxProc, q, numProc, conn, numberOfEvents, tempStream, recv,
                   connected, poolVars, fsVars, enq>>

\* client.on('message')
Message(c, s) ==
    /\ tickq = << >>
    /\ conn[c] = "open"
    /\ recv' = [recv EXCEPT ![c] = Append(@, s)]
    /\ IF ~Parses(s)
       THEN UNCHANGED <<numberOfEvents, log>>
       ELSE /\ numberOfEvents' = [numberOfEvents EXCEPT ![c] = @ + 1]
            /\ IF TagThrows(s)
               THEN UNCHANGED log
               ELSE log' = [log EXCEPT ![c] = Append(@, EventRec(s, Len(recv[c]) + 1))]
    /\ UNCHANGED <<maxProc, q, numProc, tickq, conn, tempStream, connected,
                   poolVars, fsVars, enq>>

\* the 'close' handler calling q.enqueue itself, before 'finish'
CloseHandlerEnqueues(c) ==
    /\ conn[c] = "open"
    /\ connected' = connected - 1
    /\ log' = [log EXCEPT ![c] = Append(@, CloseRec)]
    /\ tempStream' = [tempStream EXCEPT ![c] = FALSE]
    /\ conn' = [conn EXCEPT ![c] = "ended"]
    /\ enqueue(c)
    /\ UNCHANGED <<maxProc, numberOfEvents, recv, poolVars, fsVars>>

\* the body of the 'close' handler
CloseHandler(c) ==
    /\ conn[c] = "open"
    /\ connected' = connected - 1
    /\ log' = [log EXCEPT ![c] = Append(@, CloseRec)]
    /\ tempStream' = [tempStream EXCEPT ![c] = FALSE]
    /\ conn' = [conn EXCEPT ![c] = "ended"]
    /\ UNCHANGED <<maxProc, q, numProc, tickq, numberOfEvents, recv, poolVars,
                   fsVars, enq>>

\* client.on('close'): an event of the event loop, delivered when no
\* nextTick callback is pending
Close(c) ==
    /\ tickq = << >>
    /\ CloseHandler(c)

\* the test with >= in place of >
ShouldEnqueueAlways(n) == n >= 0

\* the test of the 'finish' handler: numberOfEvents > 0
ShouldEnqueue(n) == n > 0

\* tempStream.on('finish')
Finish(c) ==
    /\ tickq = << >>
    /\ conn[c] = "ended"
    /\ conn' = [conn EXCEPT ![c] = "finished"]
    /\ IF ShouldEnqueue(numberOfEvents[c])
       THEN /\ enqueue(c)
            /\ UNCHANGED fsops
       ELSE /\ fsops' = fsops \cup {UnlinkReq(c, 0)}
            /\ UNCHANGED <<q, numProc, tickq, enq>>
    /\ UNCHANGED <<maxProc, numberOfEvents, tempStream, log, recv, connected,
                   poolVars, file, stored, unlinked>>

\* -------------------------------------------------------------------- Next
\* What the environment does is bounded here, not in the handlers.

\* worker w may fail to spawn: at most n spawn failures over the run
MayFail(n) == nFail < n

\* worker w may exit: a worker whose spawn failed exits at most n times over
\* the run
MayExit(w, n) == workers[w].st = "failed" => nLate < n

\* The whole server, with the inputs the ProcessQueue cannot tell apart
\* fixed to one value: an address is known, every message is a well-formed
\* event that is not allow-listed, every worker exits with status 0, and a
\* log is read when it exists.
Next ==
    \/ \E c \in Clients : Connection(c, TRUE)
    \/ Location
    \/ \E c \in Clients : NumReceived < MaxMsgs /\ Message(c, "custom")
    \/ \E c \in Clients : Close(c)
    \/ \E c \in Clients : Finish(c)
    \/ Process
    \/ \E w \in 1..Len(workers) : MayExit(w, MaxLate) /\ OnExit(w, 0)
    \/ \E w \in 1..Len(workers) : MayFail(MaxFail + 1) /\ OnError(w)
    \/ \E r \in fsops : ReadDone(r, file[r.c])
    \/ \E r \in fsops : UnlinkDone(r)

Spec == Init /\ [][Next]_vars

\* The ProcessQueue and what feeds it: connections that receive at most one
\* event, worker exits and spawn failures.  File system completions and
\* worker messages, which touch neither the queue nor the counter, are left
\* out.
NextQueue ==
    \/ \E c \in Clients : Connection(c, FALSE)
    \/ \E c \in Clients : recv[c] = << >> /\ Message(c, "custom")
    \/ \E c \in Clients : Close(c)
    \/ \E c \in Clients : Finish(c)
    \/ Process
    \/ \E w \in 1..Len(workers) : MayExit(w, MaxLate) /\ OnExit(w, 0)
    \/ \E w \in 1..Len(workers) : MayFail(MaxFail) /\ OnError(w)

SpecQueue == Init /\ [][NextQueue]_vars

\* The ProcessQueue with no spawn failure, for progress: the event loop runs
\* every callback handed to process.nextTick, and every forked worker exits.
\* Connections open, receive and close when the clients choose to.
NextLive ==
    \/ \E c \in Clients : Connection(c, FALSE)
    \/ \E c \in Clients : recv[c] = << >> /\ Message(c, "custom")
    \/ \E c \in Clients : Close(c)
    \/ \E c \in Clients : Finish(c)
    \/ Process
    \/ \E w \in 1..Len(workers) : OnExit(w, 0)

SpecLive ==
    /\ Init
    /\ [][NextLive]_vars
    /\ WF_vars(Process)
    /\ \A w \in 1..NClients : WF_vars(OnExit(w, 0))

\* One connection from open to the removal of its log, with every input of
\* the connection: with and without an address, every shape of message,
\* either exit status, a log that can and cannot be read.
NextSession ==
    \/ \E address \in BOOLEAN : Connection(1, address)
    \/ Location
    \/ \E s \in Shapes : NumReceived < MaxMsgs /\ Message(1, s)
    \/ Close(1)
    \/ Finish(1)
    \/ Process
    \/ \E w \in 1..Len(workers), code \in {0, 1} : OnExit(w, code)
    \/ \E w \in 1..Len(workers) : OnMessage(w)
    \/ \E w \in 1..Len(workers) : NumSent < MaxResults /\ WorkerSend(w)
    \/ \E r \in fsops, ok \in BOOLEAN : ReadDone(r, ok)
    \/ \E r \in fsops : UnlinkDone(r)

SpecSession == Init /\ [][NextSession]_vars

\* One connection under an event loop that may deliver 'close' before the
\* deferred location write has run. Every order of Node's event loop is an
\* order of this one; the converse does not hold.
NextEarlyClose ==
    \/ Connection(1, TRUE)
    \/ Location
    \/ \E s \in Shapes : NumReceived < MaxMsgs /\ Message(1, s)
    \/ CloseHandler(1)
    \/ Finish(1)
    \/ Process
    \/ \E w \in 1..Len(workers) : OnExit(w, 0)
    \/ \E r \in fsops : ReadDone(r, file[r.c])
    \/ \E r \in fsops : UnlinkDone(r)

SpecEarlyClose == Init /\ [][NextEarlyClose]_vars

\* The 'message' handler of one connection, with every allow-listed tag.
NextMessage ==
    \/ Connection(1, FALSE)
    \/ \E s \in Tags \cup {"null"} : NumReceived < MaxMsgs /\ Message(1, s)
    \/ Close(1)

SpecMessage == Init /\ [][NextMessage]_vars

\* ------------------------------------------------------------- definitions
Min(a, b) == IF a < b THEN a ELSE b

Workers == 1..Len(workers)

\* the session identifiers workers were forked for, in fork order
Dispatched == [i \in Workers |-> workers[i].cid]

Live == {w \in Workers : workers[w].st = "live"}
Failed == {w \in Workers : workers[w].st = "failed"}
Exited == {w \in Workers : workers[w].st = "exited"}

Pending == {q[i] : i \in 1..Len(q)}
Enqueued == {enq[i] : i \in 1..Len(enq)}

Occurrences(qq, c) == Cardinality({i \in 1..Len(qq) : qq[i] = c})

\* -------------------------------------------------------------- properties

C2_InFlightNonNegative == numProc >= 0

\* C3: while no spawn has failed and every scheduled dispatch attempt has
\* run, the sessions dispatched are exactly the first maxProc + (number of
\* exits) enqueued ones, in enqueue order, and all later ones are pending in
\* enqueue order: with no exit exactly the first maxProc, and after one
\* exit exactly one more, the former head of the pending queue.
C3_FirstNDispatched ==
    (nFail = 0 /\ tickq = << >>) =>
        LET m == Min(Len(enq), maxProc + Cardinality(Exited)) IN
        /\ Dispatched = SubSeq(enq, 1, m)
        /\ q = SubSeq(enq, m + 1, Len(enq))

\* capacity 2, sessions 1, 2, 3 enqueued in order, the worker of session 1
\* has exited and session 3 has been dispatched
C3_Witness ==
    /\ maxProc = 2
    /\ nFail = 0
    /\ enq = <<1, 2, 3>>
    /\ Dispatched = <<1, 2, 3>>
    /\ Exited = {1}
    /\ tickq = << >>

\* C6: a spawn failure of the worker of session X appends X to the pending
\* queue exactly once, at the tail; the queue changes only by an append at
\* the tail or by the dispatch of its head, so everything that was pending at
\* the failure is dispatched before X is.
C6_RequeueAtTail ==
    [][/\ \A w \in Workers :
            (workers[w].st = "live" /\ workers'[w].st = "failed")
                => q' = Append(q, workers[w].cid)
       /\ q' # q =>
            \/ \E c \in Clients : q' = Append(q, c)
            \/ /\ q # << >>
               /\ q' = Tail(q)
               /\ Len(workers') = Len(workers) + 1
               /\ workers'[Len(workers')].cid = Head(q)]_vars

\* a session whose spawn failed is at the tail, behind another pending one
C6_Witness ==
    \E w \in Failed : Len(q) >= 2 /\ q[Len(q)] = workers[w].cid
                       /\ q[1] # workers[w].cid

\* C8: a session identifier occurs at most once in the pending queue, has at
\* most one live worker, and is never pending and live at once; it enters
\* the queue only by its one enqueue or by the spawn failure of its worker.
C8_State ==
    /\ \A c \in Clients : Occurrences(q, c) <= 1
    /\ \A v, w \in Live : workers[v].cid = workers[w].cid => v = w
    /\ \A w \in Live : workers[w].cid \notin Pending

C8_Step ==
    \A c \in Clients : Occurrences(q', c) > Occurrences(q, c) =>
        \/ c \notin Enqueued /\ enq' = Append(enq, c)
        \/ \E w \in Live : workers[w].cid = c /\ workers'[w].st = "failed"

C8_NoDuplicate == [][C8_Step /\ C8_State']_vars

\* a session re-entered the queue by the failure of its worker, which is no
\* longer live
C8_Witness ==
    \E w \in Failed : workers[w].cid \in Pending
                       /\ workers[w].cid \in Enqueued

\* C9: Store.put is called at most once per session identifier.
C9_StoredOnce == \A c \in Clients : stored[c] <= 1

\* the records a log holds, as <<type, number of the message>>
Proj(l) == [i \in 1..Len(l) |-> <<l[i].type, l[i].n>>]

\* the messages a session received, in order of receipt
RECURSIVE Received(_, _)
Received(r, n) ==
    IF n = 0 THEN << >> ELSE Append(Received(r, n - 1), <<r[n], n>>)

\* the received messages that parsed to a value other than null
RECURSIVE ReceivedValues(_, _)
ReceivedValues(r, n) ==
    IF n = 0 THEN << >>
    ELSE IF r[n] \in {"number", "getUserMedia", "custom"}
         THEN Append(ReceivedValues(r, n - 1), <<r[n], n>>)
         ELSE ReceivedValues(r, n - 1)

UnlinkPending(c) == \E r \in fsops : r.op = "unlink" /\ r.c = c

Finalized == {c \in Clients : conn[c] \in {"ended", "finished"}}

\* C4: a session that received no event is never passed to q.enqueue, and
\* once its stream has finished and the unlink has completed its log file
\* does not exist.
C4_EmptySessionDiscarded ==
    \A c \in Clients : (conn[c] # "idle" /\ recv[c] = << >>) =>
        /\ c \notin Enqueued
        /\ (conn[c] = "finished" /\ ~UnlinkPending(c)) => ~file[c]

\* a session without events has finished and its file is gone
C4_Witness ==
    \E c \in Clients : /\ conn[c] = "finished"
                        /\ recv[c] = << >>
                        /\ ~UnlinkPending(c)
                        /\ ~file[c]
                        /\ unlinked[c] = 1

\* C5 as stated: the log of an enqueued session is the metadata record, the
\* received events in order of receipt, the close record, and nothing else.
C5_Original ==
    \A c \in Enqueued :
        Proj(log[c]) = <<(<<"meta", 0>>)>> \o Received(recv[c], Len(recv[c]))
                         \o <<(<<"close", 0>>)>>

\* C5 amended: the log of an enqueued session is the metadata record, then
\* at most one location record, then one record for each received message
\* that parsed to a value other than null, in order of receipt, then the
\* close record.
C5_LogAtEnqueue ==
    \A c \in Enqueued :
        LET ev == ReceivedValues(recv[c], Len(recv[c])) IN
        \/ Proj(log[c]) = <<(<<"meta", 0>>)>> \o ev \o <<(<<"close", 0>>)>>
        \/ Proj(log[c]) = <<(<<"meta", 0>>), (<<"location", 0>>)>> \o ev
                             \o <<(<<"close", 0>>)>>

\* an enqueued session with a location record, two logged events and one
\* dropped message
C5_Witness ==
    \E c \in Enqueued : /\ Len(recv[c]) = 3
                         /\ Len(log[c]) = 5
                         /\ log[c][2].type = "location"

IsEvent(r) == r.type \notin {"meta", "location", "close"}

\* C10 as stated: in a finalized log a location record, when present, comes
\* after every event record, directly before the close record.
C10_Original ==
    \A c \in Finalized :
        /\ log[c][1].type = "meta"
        /\ log[c][Len(log[c])].type = "close"
        /\ \A i \in 2..(Len(log[c]) - 1) :
              \/ IsEvent(log[c][i])
              \/ log[c][i].type = "location" /\ i = Len(log[c]) - 1

\* C10 amended: a finalized log is the metadata record, then the location
\* record if one was written, then the event records in order of receipt,
\* then the close record.
C10_RecordOrder ==
    \A c \in Finalized :
        /\ Len(log[c]) >= 2
        /\ log[c][1].type = "meta"
        /\ log[c][Len(log[c])].type = "close"
        /\ \A i \in 2..(Len(log[c]) - 1) :
              \/ IsEvent(log[c][i])
              \/ log[c][i].type = "location" /\ i = 2
        /\ \A i, j \in 2..(Len(log[c]) - 1) :
              (i < j /\ IsEvent(log[c][i]) /\ IsEvent(log[c][j]))
                  => log[c][i].n < log[c][j].n

\* a finalized log with a location record and two event records after it
C10_Witness ==
    \E c \in Finalized : /\ Len(log[c]) >= 5
                          /\ log[c][2].type = "location"
                          /\ IsEvent(log[c][3])
                          /\ IsEvent(log[c][4])

\* C7: whatever the exit status, the exit handler asks for the log to be
\* read and counts exactly one of the two metrics; a read that succeeds
\* forwards the log to Store.put once and asks for the file to be removed;
\* and a result message that was sent can be forwarded to Database.put
\* whether or not its worker has exited.
C7_ExitStep ==
    /\ \A w \in Workers :
          (workers[w].st # "exited" /\ workers'[w].st = "exited") =>
              /\ ReadReq(workers[w].cid, w) \in fsops'
              /\ processed' + errored' = processed + errored + 1
    /\ \A c \in Clients :
          stored'[c] # stored[c] =>
              /\ stored'[c] = stored[c] + 1
              /\ file[c]
              /\ \E w \in Exited : /\ ReadReq(c, w) \in fsops
                                   /\ UnlinkReq(c, w) \in fsops'

C7_MessagesForwarded ==
    \A w \in Workers :
        /\ workers[w].put <= workers[w].sent
        /\ (workers[w].put < workers[w].sent /\ tickq = << >>)
              => ENABLED OnMessage(w)

C7_ExitStatusIrrelevant == [](C7_MessagesForwarded) /\ [][C7_ExitStep]_vars

\* a worker exited with a non-zero status after one result message: the
\* message was forwarded, the log was stored and the file is gone
C7_Witness ==
    /\ errored = 1
    /\ processed = 0
    /\ \E w \in Exited : /\ workers[w].sent = 1
                         /\ workers[w].put = 1
                         /\ stored[workers[w].cid] = 1
                         /\ ~file[workers[w].cid]

\* C11: an event whose tag is one of the six allow-listed tags is appended
\* without redaction, and an event with any other tag is appended redacted.
C11_RedactionByTag ==
    \A c \in Clients : \A i \in 1..Len(log[c]) :
        IsEvent(log[c][i]) =>
            /\ log[c][i].type = recv[c][log[c][i].n]
            /\ log[c][i].red =
                  (log[c][i].type \notin
                      {"getUserMedia", "getUserMediaOnSuccess",
                       "getUserMediaOnFailure",
                       "navigator.mediaDevices.getUserMedia",
                       "navigator.mediaDevices.getUserMediaOnSuccess",
                       "navigator.mediaDevices.getUserMediaOnFailure"})

\* a log with an allow-listed event appended as received and another event
\* appended redacted
C11_Witness ==
    \E c \in Clients : \E i, j \in 1..Len(log[c]) :
        /\ log[c][i].type = "navigator.mediaDevices.getUserMediaOnFailure"
        /\ ~log[c][i].red
        /\ log[c][j].type = "custom"
        /\ log[c][j].red

\* C12: once the close record is written the log never changes again: in
\* every closed session the close record is the last record and the only
\* close record, and a location write that runs after the 'close' handler
\* released the handle leaves the log as it is.
C12_Closed ==
    \A c \in Finalized :
        /\ log[c] # << >>
        /\ log[c][Len(log[c])] = CloseRec
        /\ \A i \in 1..Len(log[c]) - 1 : log[c][i] # CloseRec

C12_NothingAfterClose ==
    [][C12_Closed' /\ \A c \in Finalized : log'[c] = log[c]]_vars

\* a finished session with a known address whose log holds no location
\* record: the deferred write ran after 'close' and was dropped
C12_Witness ==
    /\ conn[1] = "finished"
    /\ tickq = << >>
    /\ \A i \in 1..Len(log[1]) : log[1][i] # LocationRec

\* C13: a malformed inbound message (one that does not parse, or parses to
\* something that is not a sequence with a tag first: null, a number) leaves
\* no record in the log.
C13_MalformedDropped ==
    \A c \in Clients : \A i \in 1..Len(log[c]) :
        IsEvent(log[c][i]) =>
            recv[c][log[c][i].n] \notin {"unparseable", "null", "number"}

\* C14: a session whose stream has finished was enqueued exactly once when
\* it received at least one inbound message, malformed ones included, and
\* was not enqueued when it received none.
C14_EnqueuedIffReceived ==
    \A c \in Clients :
        conn[c] = "finished" =>
            Occurrences(enq, c) = (IF recv[c] # << >> THEN 1 ELSE 0)

\* C15: the callback of a read runs after the exit handler that issued it
\* has decremented numProc and scheduled the next dispatch, and leaves q,
\* numProc, the scheduled dispatches and the workers as they are whether the
\* read failed or not; when the read failed, nothing is passed to the Store,
\* no unlink and no further read is issued, and the file stays.
C15_ReadStep ==
    \A r \in fsops :
        (r.op = "read" /\ r \notin fsops') =>
            /\ workers[r.w].st = "exited"
            /\ <<q, numProc, tickq, enq, workers>>' = <<q, numProc, tickq, enq, workers>>
            /\ stored'[r.c] = stored[r.c] =>
                  /\ fsops' = fsops \ {r}
                  /\ stored' = stored
                  /\ file' = file
                  /\ unlinked' = unlinked

C15_ReadFailureSwallowed == [][C15_ReadStep]_vars

\* the read of an exited worker has failed: nothing is pending, nothing was
\* stored and the file is still there
C15_Witness ==
    \E w \in Exited :
        /\ fsops = {}
        /\ stored[workers[w].cid] = 0
        /\ file[workers[w].cid]
        /\ q = << >>
        /\ numProc = 0
        /\ tickq = << >>

\* C16: a session that has been enqueued, has a worker, or has a read of its
\* log pending has its close record written, its stream finished and its
\* handle released, and from the enqueue on its log is never appended to.
C16_WriterDone ==
    \A c \in Clients :
        (\/ c \in Enqueued
         \/ \E w \in Workers : workers[w].cid = c
         \/ \E r \in fsops : r.op = "read" /\ r.c = c) =>
            /\ conn[c] = "finished"
            /\ ~tempStream[c]
            /\ log[c][Len(log[c])] = CloseRec
            /\ \A t \in 1..Len(tickq) : tickq[t] # LocationTick(c)

C16_SingleWriterThenReader ==
    [][C16_WriterDone' /\ \A c \in Enqueued : log'[c] = log[c]]_vars

\* the log of a finished session is being read by the exit handler
C16_Witness ==
    \E r \in fsops :
        /\ r.op = "read"
        /\ conn[r.c] = "finished"
        /\ Len(log[r.c]) > 2

\* C17: as long as no spawn has failed, the sessions workers were forked
\* for are, in fork order, a prefix of the sessions in enqueue order; and a
\* dispatch attempt that finds q empty forks nothing and leaves numProc and
\* q as they are.
C17_Step ==
    /\ nFail' = 0 => Dispatched' = SubSeq(enq', 1, Len(workers'))
    /\ (tickq # << >> /\ Head(tickq) = ProcessTick /\ q = << >>) =>
          /\ tickq' = Tail(tickq)
          /\ workers' = workers
          /\ numProc' = numProc
          /\ q' = q

C17_FifoDispatch == [][C17_Step]_vars

\* three sessions were dispatched in enqueue order, all workers have exited
\* and the dispatch attempt scheduled by the last exit found q empty
C17_Witness ==
    /\ nFail = 0
    /\ Len(enq) = 3
    /\ Dispatched = enq
    /\ Cardinality(Exited) = 3
    /\ q = << >>
    /\ numProc = 0
    /\ tickq = << >>

\* C18: whenever q is not empty, a worker is in flight or a dispatch attempt
\* is scheduled.
C18_NoPendingStranded ==
    q # << >> =>
        \/ Live # {}
        \/ \E t \in 1..Len(tickq) : tickq[t] = ProcessTick

\* C20: numProc is the number of live workers (forked, and neither their
\* exit handler nor their error handler has run).
C20_CounterIsLive == numProc = Cardinality(Live)

\* C19: with no spawn failure, every scheduled dispatch attempt run and
\* every worker exiting, each enqueued session is eventually dispatched and
\* the exit handler of its worker runs, and in the end q is empty and
\* numProc is 0 for good.
C19_EveryWorkerExited ==
    \A c \in Enqueued : \E w \in Exited : workers[w].cid = c

C19_EventuallyProcessed ==
    /\ \A c \in Clients :
          (c \in Enqueued) ~> (\E w \in Exited : workers[w].cid = c)
    /\ <>[](q = << >> /\ numProc = 0 /\ C19_EveryWorkerExited)

\* capacity 1 and three sessions: each was dispatched when the worker
\* before it exited, and all three exit handlers have run
C19_Witness ==
    /\ maxProc = 1
    /\ nFail = 0
    /\ Enqueued = Clients
    /\ C19_EveryWorkerExited
    /\ q = << >>
    /\ numProc = 0
====
